---- MODULE Spec2Model ----
(***************************************************************************)
(* Model of the AudioProcessor class (the processing graph, the parameter  *)
(* mapper and the transport controller) of the bass shaper plugin.         *)
(*                                                                         *)
(* Units: the context clock, startTime and pausedAt are counted in clock   *)
(* ticks.  Stage parameters are kept in hundredths (a shelf gain of 25 dB  *)
(* is 2500, a compressor ratio of 12 is 1200, an output gain of 1.0 is     *)
(* 100), so that the mappings (x-50)*0.5, (x-50)*0.48, 1+(x/100)*19 and    *)
(* x/100 are exact on integer settings.                                    *)
(***************************************************************************)
EXTENDS Integers, FiniteSets, Sequences, TLC

VARIABLES
    audioContext,    \* "none" | "running" | "closed"
    currentTime,     \* audioContext.currentTime, in ticks
    nodesCreated,    \* how many of the seven stage fields are non-null
    contextNodes,    \* how many of them hold a node of the current context
    params,          \* the live parameters of the stages, in hundredths
    isInitialized,
    audioBuffer,     \* NoBuffer or the file whose decoded buffer is loaded
    pendingDecodes,  \* files whose loadAudioFile is awaiting its decode
    sourceNode,      \* NoNode or the playback unit held by the field
    liveSources,     \* source nodes started and not stopped
    connections,     \* the connections made between the stage nodes
    startTime,
    pausedAt,
    settings,        \* the argument of the last updateSettings call
    lastOp,          \* the last step taken
    wasPlaying,      \* isPlaying() when the last step began
    raised,          \* the error the last step threw, or "none"
    uiPlaying,       \* the isPlaying state of App
    uiFile,          \* the audioFile state of App, NoFile or a file
    isReady,         \* the isReady state of useAudioProcessor
    effects,         \* the effects of the hook still to run after a render
    uiEvent,         \* the last handler of App that ran
    uiSettings,      \* the audioSettings state of App
    mounted,         \* the component using the hook is mounted
    frame,           \* the byte frequency data the analyser hands out
    level,           \* the value getLevel() returned, as a fraction
    waveBuffer,      \* the decoded buffer handed to generateWaveform
    waveformData,    \* the waveformData state of WaveformVisualizer
    pendingWaves     \* generateWaveform calls still awaiting, per file

procVars == <<audioContext, currentTime, nodesCreated, contextNodes, params,
              isInitialized,
              audioBuffer, pendingDecodes, sourceNode, liveSources,
              connections, startTime, pausedAt, settings, lastOp, wasPlaying,
              raised>>

uiVars == <<uiPlaying, uiFile, isReady, effects, uiEvent, uiSettings, mounted>>

meterVars == <<frame, level>>

waveVars == <<waveBuffer, waveformData, pendingWaves>>

vars == <<procVars, uiVars, meterVars, waveVars>>

\* ------------------------------------------------------------------ bounds
MaxClock == 3
NumFiles == 2
MaxOver == 10
NumBins == 3
MaxBlock == 2
LenSpread == 20
MaxPending == 2
MaxChanged == 1

\* --------------------------------------------------------------- constants
NoBuffer == 0
NoNode == [exists |-> FALSE]
NoFile == 0
NoLevel == [num |-> 0, den |-> 0]
NoWaveBuffer == [length |-> 0, shape |-> "none"]
NoWaveform == <<>>
Files == 1..NumFiles
NodeCount == 7
\* the fields in the order initialize() creates them
GainIdx == 1
BassIdx == 2
LowIdx == 3
MidIdx == 4
HighIdx == 5
CompressorIdx == 6
AnalyserIdx == 7
\* audioContext.destination
DestinationIdx == 8
\* no node
NoOutput == 0

\* frames per tick of a decoded buffer, and the frames decoded from file f
SampleRate == 4
FrameCount(f) == (f + 1) * SampleRate

\* AudioBuffer.duration of the buffer decoded from file f, in ticks
Duration(f) == FrameCount(f) \div SampleRate

\* the parameters of the stages that updateSettings never writes, as a
\* freshly created node has them: a BiquadFilterNode is a "lowpass" at
\* 350 Hz, a DynamicsCompressorNode has threshold -24 dB, knee 30 dB, attack
\* 3 ms and release 250 ms.  Types are strings, frequencies are in Hz,
\* threshold and knee in hundredths of a dB, attack and release in ms.
DefaultConfig ==
    [bassType |-> "lowpass", bassFrequency |-> 350,
     lowType |-> "lowpass", lowFrequency |-> 350,
     midType |-> "lowpass", midFrequency |-> 350,
     highType |-> "lowpass", highFrequency |-> 350,
     threshold |-> -2400, knee |-> 3000, attack |-> 3, release |-> 250]

\* values of a freshly created node: GainNode.gain 1, BiquadFilterNode.gain 0,
\* DynamicsCompressorNode.ratio 12
DefaultParams ==
    [gain |-> 100, bass |-> 0, low |-> 0, mid |-> 0, high |-> 0, ratio |-> 1200,
     config |-> DefaultConfig]

\* the same parameters as initialize() sets them after creating the nodes
InitializedConfig ==
    [bassType |-> "lowshelf", bassFrequency |-> 100,
     lowType |-> "peaking", lowFrequency |-> 100,
     midType |-> "peaking", midFrequency |-> 1000,
     highType |-> "peaking", highFrequency |-> 3000,
     threshold |-> -2400, knee |-> 3000, attack |-> 3, release |-> 250]

\* the settings the application starts with
DefaultSettings ==
    [bassBoost |-> 50, lowFreq |-> 60, midFreq |-> 50, highFreq |-> 40,
     saturation |-> 30, compression |-> 40, gain |-> 75, enabled |-> TRUE]

\* the settings values the transport model passes to updateSettings
SettingsChoices ==
    { DefaultSettings,
      [bassBoost |-> 100, lowFreq |-> 0, midFreq |-> 100, highFreq |-> 0,
       saturation |-> 0, compression |-> 100, gain |-> 100, enabled |-> FALSE],
      [bassBoost |-> 150, lowFreq |-> 50, midFreq |-> 50, highFreq |-> 50,
       saturation |-> 50, compression |-> 0, gain |-> -10, enabled |-> TRUE] }

\* one settings field moved over its whole range (and MaxOver beyond it on
\* either side) while the others rest, and all numeric fields moved together
SettingsRange == (0 - MaxOver)..(100 + MaxOver)
SettingsDomain ==
    { [DefaultSettings EXCEPT !.bassBoost = v] : v \in SettingsRange } \cup
    { [DefaultSettings EXCEPT !.lowFreq = v] : v \in SettingsRange } \cup
    { [DefaultSettings EXCEPT !.midFreq = v] : v \in SettingsRange } \cup
    { [DefaultSettings EXCEPT !.highFreq = v] : v \in SettingsRange } \cup
    { [DefaultSettings EXCEPT !.compression = v] : v \in SettingsRange } \cup
    { [DefaultSettings EXCEPT !.gain = v] : v \in SettingsRange } \cup
    { [bassBoost |-> v, lowFreq |-> v, midFreq |-> v, highFreq |-> v,
       saturation |-> v, compression |-> v, gain |-> v, enabled |-> e] :
         v \in SettingsRange, e \in BOOLEAN }

\* ------------------------------------------------------------ pure queries
\* getCurrentTime()
getCurrentTime ==
    IF audioContext = "none" THEN 0 ELSE currentTime - startTime

\* getDuration() reading the buffer of the source node
getDurationOfSource ==
    IF sourceNode = NoNode THEN 0 ELSE Duration(sourceNode.buffer)

\* getDuration()
getDuration ==
    IF audioBuffer = NoBuffer THEN 0 ELSE Duration(audioBuffer)

\* isPlaying()
isPlaying == sourceNode # NoNode

\* ------------------------------------------------------- parameter mapping
\* the value compressor.ratio holds after r is assigned to it: an AudioParam
\* keeps its value within its nominal range, 1 to 20 for the ratio
RatioParam(r) == IF r < 100 THEN 100 ELSE IF r > 2000 THEN 2000 ELSE r

\* updateSettings with the compressor ratio mapped as 1 + (x/100)*20
UpdateParamsRatio20(p, n, s) ==
    [gain  |-> IF n >= GainIdx THEN s.gain ELSE p.gain,
     bass  |-> IF n >= BassIdx THEN (s.bassBoost - 50) * 50 ELSE p.bass,
     low   |-> IF n >= LowIdx THEN (s.lowFreq - 50) * 48 ELSE p.low,
     mid   |-> IF n >= MidIdx THEN (s.midFreq - 50) * 48 ELSE p.mid,
     high  |-> IF n >= HighIdx THEN (s.highFreq - 50) * 48 ELSE p.high,
     ratio |-> IF n >= CompressorIdx THEN RatioParam(100 + s.compression * 20)
               ELSE p.ratio,
     config |-> p.config]

\* updateSettings scaling the output gain it finds instead of setting it
UpdateParamsRelativeGain(p, n, s) ==
    [gain  |-> IF n >= GainIdx THEN (p.gain * s.gain) \div 100 ELSE p.gain,
     bass  |-> IF n >= BassIdx THEN (s.bassBoost - 50) * 50 ELSE p.bass,
     low   |-> IF n >= LowIdx THEN (s.lowFreq - 50) * 48 ELSE p.low,
     mid   |-> IF n >= MidIdx THEN (s.midFreq - 50) * 48 ELSE p.mid,
     high  |-> IF n >= HighIdx THEN (s.highFreq - 50) * 48 ELSE p.high,
     ratio |-> IF n >= CompressorIdx THEN RatioParam(100 + s.compression * 19)
               ELSE p.ratio,
     config |-> p.config]

\* updateSettings flattening the four filters while enabled is false
UpdateParamsBypass(p, n, s) ==
    [gain  |-> IF n >= GainIdx THEN s.gain ELSE p.gain,
     bass  |-> IF n >= BassIdx
               THEN (IF s.enabled THEN (s.bassBoost - 50) * 50 ELSE 0)
               ELSE p.bass,
     low   |-> IF n >= LowIdx
               THEN (IF s.enabled THEN (s.lowFreq - 50) * 48 ELSE 0)
               ELSE p.low,
     mid   |-> IF n >= MidIdx
               THEN (IF s.enabled THEN (s.midFreq - 50) * 48 ELSE 0)
               ELSE p.mid,
     high  |-> IF n >= HighIdx
               THEN (IF s.enabled THEN (s.highFreq - 50) * 48 ELSE 0)
               ELSE p.high,
     ratio |-> IF n >= CompressorIdx THEN RatioParam(100 + s.compression * 19)
               ELSE p.ratio,
     config |-> p.config]

\* updateSettings lowering the compressor threshold with the compression
UpdateParamsThreshold(p, n, s) ==
    [gain  |-> IF n >= GainIdx THEN s.gain ELSE p.gain,
     bass  |-> IF n >= BassIdx THEN (s.bassBoost - 50) * 50 ELSE p.bass,
     low   |-> IF n >= LowIdx THEN (s.lowFreq - 50) * 48 ELSE p.low,
     mid   |-> IF n >= MidIdx THEN (s.midFreq - 50) * 48 ELSE p.mid,
     high  |-> IF n >= HighIdx THEN (s.highFreq - 50) * 48 ELSE p.high,
     ratio |-> IF n >= CompressorIdx THEN RatioParam(100 + s.compression * 19)
               ELSE p.ratio,
     config |-> IF n >= CompressorIdx
                THEN [p.config EXCEPT !.threshold = -2400 - s.compression * 10]
                ELSE p.config]

\* updateSettings(settings) on the stage parameters p of a processor whose
\* first n stage fields are non-null
UpdateParams(p, n, s) ==
    [gain  |-> IF n >= GainIdx THEN s.gain ELSE p.gain,
     bass  |-> IF n >= BassIdx THEN (s.bassBoost - 50) * 50 ELSE p.bass,
     low   |-> IF n >= LowIdx THEN (s.lowFreq - 50) * 48 ELSE p.low,
     mid   |-> IF n >= MidIdx THEN (s.midFreq - 50) * 48 ELSE p.mid,
     high  |-> IF n >= HighIdx THEN (s.highFreq - 50) * 48 ELSE p.high,
     ratio |-> IF n >= CompressorIdx THEN RatioParam(100 + s.compression * 19)
               ELSE p.ratio,
     config |-> p.config]

\* the parameters after the first n stage nodes have been created afresh
CreateNodes(p, n) ==
    [gain  |-> IF n >= GainIdx THEN DefaultParams.gain ELSE p.gain,
     bass  |-> IF n >= BassIdx THEN DefaultParams.bass ELSE p.bass,
     low   |-> IF n >= LowIdx THEN DefaultParams.low ELSE p.low,
     mid   |-> IF n >= MidIdx THEN DefaultParams.mid ELSE p.mid,
     high  |-> IF n >= HighIdx THEN DefaultParams.high ELSE p.high,
     ratio |-> IF n >= CompressorIdx THEN DefaultParams.ratio ELSE p.ratio,
     config |->
       [bassType |-> IF n >= BassIdx THEN DefaultConfig.bassType
                     ELSE p.config.bassType,
        bassFrequency |-> IF n >= BassIdx THEN DefaultConfig.bassFrequency
                          ELSE p.config.bassFrequency,
        lowType |-> IF n >= LowIdx THEN DefaultConfig.lowType
                    ELSE p.config.lowType,
        lowFrequency |-> IF n >= LowIdx THEN DefaultConfig.lowFrequency
                         ELSE p.config.lowFrequency,
        midType |-> IF n >= MidIdx THEN DefaultConfig.midType
                    ELSE p.config.midType,
        midFrequency |-> IF n >= MidIdx THEN DefaultConfig.midFrequency
                         ELSE p.config.midFrequency,
        highType |-> IF n >= HighIdx THEN DefaultConfig.highType
                     ELSE p.config.highType,
        highFrequency |-> IF n >= HighIdx THEN DefaultConfig.highFrequency
                          ELSE p.config.highFrequency,
        threshold |-> IF n >= CompressorIdx THEN DefaultConfig.threshold
                      ELSE p.config.threshold,
        knee |-> IF n >= CompressorIdx THEN DefaultConfig.knee
                 ELSE p.config.knee,
        attack |-> IF n >= CompressorIdx THEN DefaultConfig.attack
                   ELSE p.config.attack,
        release |-> IF n >= CompressorIdx THEN DefaultConfig.release
                    ELSE p.config.release]]

\* the assignments of initialize() to the nodes it has created: filter
\* types and frequencies, compressor threshold, knee, ratio, attack, release
Configure(p) ==
    [p EXCEPT !.ratio = 1200, !.config = InitializedConfig]

\* the parameters initialize() leaves when nothing throws
InitializedParams ==
    Configure(CreateNodes(DefaultParams, NodeCount))

\* ------------------------------------------------------------------ routing
\* the destinations of the chained connect calls of play(), in call order:
\* the source node connects to the first, each one to the next
ChainOrderGainFirst ==
    <<BassIdx, LowIdx, MidIdx, HighIdx, GainIdx, CompressorIdx, AnalyserIdx,
      DestinationIdx>>

ChainOrder ==
    <<BassIdx, LowIdx, MidIdx, HighIdx, CompressorIdx, GainIdx, AnalyserIdx,
      DestinationIdx>>

\* the i-th connect call of play() is reached and returns when the first n
\* stage fields hold nodes of the context that created the source node:
\* connect throws on null and on a node of another context
Connected(n, i) ==
    \A j \in 1..i : ChainOrder[j] = DestinationIdx \/ ChainOrder[j] <= n

\* what the first failing connect call of play() throws: a TypeError on a
\* null field, an InvalidAccessError on a node left from an earlier context
ConnectError ==
    LET i == CHOOSE j \in 1..Len(ChainOrder) :
                 /\ ~Connected(contextNodes, j)
                 /\ j > 1 => Connected(contextNodes, j - 1)
    IN  IF ChainOrder[i] <= nodesCreated THEN "InvalidAccessError"
        ELSE "TypeError"

\* the node the new source node is connected to
SourceOutput(n) == IF Connected(n, 1) THEN ChainOrder[1] ELSE NoOutput

\* the connections between stage nodes that the connect calls of play() make
ChainEdges(n) ==
    { <<ChainOrder[i - 1], ChainOrder[i]>> :
        i \in { k \in 2..Len(ChainOrder) : Connected(n, k) } }

\* the connections left when the first n stage fields are assigned new
\* nodes: a connection of a replaced node is no connection of the new one
Recreated(edges, n) ==
    { e \in edges : e[1] > n /\ e[2] > n }

\* ---------------------------------------------------------------- transport
\* stop() leaving pausedAt as it finds it
StopEffectKeepsOffset ==
    IF sourceNode # NoNode /\ ~sourceNode.started
    THEN [sourceNode |-> sourceNode, liveSources |-> liveSources,
          startTime |-> startTime, pausedAt |-> pausedAt,
          raised |-> "InvalidStateError"]
    ELSE [sourceNode |-> NoNode,
          liveSources |-> IF sourceNode # NoNode THEN liveSources - 1
                          ELSE liveSources,
          startTime |-> 0, pausedAt |-> pausedAt, raised |-> "none"]

\* the effect of stop() on the transport fields; sourceNode.stop() throws
\* InvalidStateError on a node that was never started
StopEffect ==
    IF sourceNode # NoNode /\ ~sourceNode.started
    THEN [sourceNode |-> sourceNode, liveSources |-> liveSources,
          startTime |-> startTime, pausedAt |-> pausedAt,
          raised |-> "InvalidStateError"]
    ELSE [sourceNode |-> NoNode,
          liveSources |-> IF sourceNode # NoNode THEN liveSources - 1
                          ELSE liveSources,
          startTime |-> 0, pausedAt |-> 0, raised |-> "none"]

\* a source node created by play() for buffer b: output is the node it
\* was connected to, startedAt the clock when start() was called (-1: never)
NewSource(b, started, offset) ==
    [exists |-> TRUE, started |-> started, buffer |-> b, offset |-> offset,
     output |-> SourceOutput(contextNodes),
     startedAt |-> IF started THEN currentTime ELSE -1]

\* ------------------------------------------------------------------ actions
Init ==
    /\ audioContext = "none"
    /\ currentTime = 0
    /\ nodesCreated = 0
    /\ contextNodes = 0
    /\ params = DefaultParams
    /\ isInitialized = FALSE
    /\ audioBuffer = NoBuffer
    /\ pendingDecodes = {}
    /\ sourceNode = NoNode
    /\ liveSources = 0
    /\ connections = {}
    /\ startTime = 0
    /\ pausedAt = 0
    /\ settings = DefaultSettings
    /\ lastOp = "new"
    /\ wasPlaying = FALSE
    /\ raised = "none"

\* the body of initialize() past its isInitialized check; failAt = 0: the
\* AudioContext constructor throws, failAt = k in 1..7: creating the k-th
\* node throws, failAt = NodeCount + 1: nothing throws
InitializeBody(failAt) ==
    IF failAt = 0
    THEN /\ raised' = "InitError"
         /\ UNCHANGED <<audioContext, currentTime, nodesCreated, contextNodes,
                        params, isInitialized, connections>>
    ELSE /\ audioContext' = "running"
         /\ currentTime' = 0
         /\ IF failAt <= NodeCount
            THEN /\ nodesCreated' = IF failAt - 1 > nodesCreated
                                    THEN failAt - 1 ELSE nodesCreated
                 /\ contextNodes' = failAt - 1
                 /\ params' = CreateNodes(params, failAt - 1)
                 /\ connections' = Recreated(connections, failAt - 1)
                 /\ raised' = "InitError"
                 /\ UNCHANGED isInitialized
            ELSE /\ nodesCreated' = NodeCount
                 /\ contextNodes' = NodeCount
                 /\ params' = Configure(CreateNodes(params, NodeCount))
                 /\ connections' = Recreated(connections, NodeCount)
                 /\ isInitialized' = TRUE
                 /\ raised' = "none"

\* initialize() without its isInitialized check
InitializeAlways(failAt) ==
    /\ lastOp' = "initialize"
    /\ wasPlaying' = isPlaying
    /\ InitializeBody(failAt)
    /\ UNCHANGED <<audioBuffer, pendingDecodes, sourceNode, liveSources,
                   startTime, pausedAt, settings>>

\* initialize()
Initialize(failAt) ==
    /\ lastOp' = "initialize"
    /\ wasPlaying' = isPlaying
    /\ IF isInitialized
       THEN /\ raised' = "none"
            /\ UNCHANGED <<audioContext, currentTime, nodesCreated,
                           contextNodes, params, isInitialized, connections>>
       ELSE InitializeBody(failAt)
    /\ UNCHANGED <<audioBuffer, pendingDecodes, sourceNode, liveSources,
                   startTime, pausedAt, settings>>

\* loadAudioFile(file) up to the point where it awaits the decode
LoadAudioFile(f, failAt) ==
    /\ f \notin pendingDecodes
    /\ lastOp' = "loadAudioFile"
    /\ wasPlaying' = isPlaying
    /\ IF audioContext = "none"
       THEN /\ InitializeBody(failAt)
            /\ pendingDecodes' = IF failAt <= NodeCount THEN pendingDecodes
                                 ELSE pendingDecodes \cup {f}
       ELSE /\ pendingDecodes' = pendingDecodes \cup {f}
            /\ raised' = "none"
            /\ UNCHANGED <<audioContext, currentTime, nodesCreated,
                           contextNodes, params, isInitialized, connections>>
    /\ UNCHANGED <<audioBuffer, sourceNode, liveSources, startTime, pausedAt,
                   settings>>

\* decodeAudioData resolves: loadAudioFile stores the buffer
DecodeDone(f) ==
    /\ f \in pendingDecodes
    /\ pendingDecodes' = pendingDecodes \ {f}
    /\ audioBuffer' = f
    /\ lastOp' = "decodeDone"
    /\ wasPlaying' = isPlaying
    /\ raised' = "none"
    /\ UNCHANGED <<audioContext, currentTime, nodesCreated, contextNodes,
                   params, isInitialized, sourceNode, liveSources, connections,
                   startTime, pausedAt, settings>>

\* a failed decode that drops the loaded buffer
DecodeFailClears(f) ==
    /\ f \in pendingDecodes
    /\ pendingDecodes' = pendingDecodes \ {f}
    /\ audioBuffer' = NoBuffer
    /\ lastOp' = "decodeFail"
    /\ wasPlaying' = isPlaying
    /\ raised' = "LoadError"
    /\ UNCHANGED <<audioContext, currentTime, nodesCreated, contextNodes,
                   params, isInitialized, sourceNode, liveSources, connections,
                   startTime, pausedAt, settings>>

\* arrayBuffer() or decodeAudioData rejects: loadAudioFile throws
DecodeFail(f) ==
    /\ f \in pendingDecodes
    /\ pendingDecodes' = pendingDecodes \ {f}
    /\ lastOp' = "decodeFail"
    /\ wasPlaying' = isPlaying
    /\ raised' = "LoadError"
    /\ UNCHANGED <<audioContext, currentTime, nodesCreated, contextNodes,
                   params, isInitialized, audioBuffer, sourceNode, liveSources,
                   connections, startTime, pausedAt, settings>>

\* the body of play() without its call of stop()
PlayBodyNoStop ==
    IF contextNodes < NodeCount
    THEN /\ sourceNode' = NewSource(audioBuffer, FALSE, 0)
         /\ connections' = connections \cup ChainEdges(contextNodes)
         /\ raised' = ConnectError
         /\ UNCHANGED <<liveSources, startTime, pausedAt>>
    ELSE /\ sourceNode' = NewSource(audioBuffer, TRUE, pausedAt)
         /\ connections' = connections \cup ChainEdges(contextNodes)
         /\ liveSources' = liveSources + 1
         /\ startTime' = currentTime - pausedAt
         /\ pausedAt' = 0
         /\ raised' = "none"

\* the body of play() returning at once while a source node is running
PlayBodyKeepsRunning ==
    IF sourceNode # NoNode /\ sourceNode.started
    THEN /\ raised' = "none"
         /\ UNCHANGED <<sourceNode, liveSources, connections, startTime,
                        pausedAt>>
    ELSE LET stopped == StopEffect
             offset == stopped.pausedAt
         IN  IF stopped.raised # "none"
             THEN /\ raised' = stopped.raised
                  /\ UNCHANGED <<sourceNode, liveSources, connections,
                                 startTime, pausedAt>>
             ELSE IF contextNodes < NodeCount
             THEN /\ sourceNode' = NewSource(audioBuffer, FALSE, 0)
                  /\ connections' = connections \cup ChainEdges(contextNodes)
                  /\ liveSources' = stopped.liveSources
                  /\ startTime' = stopped.startTime
                  /\ pausedAt' = stopped.pausedAt
                  /\ raised' = ConnectError
             ELSE /\ sourceNode' = NewSource(audioBuffer, TRUE, offset)
                  /\ connections' = connections \cup ChainEdges(contextNodes)
                  /\ liveSources' = stopped.liveSources + 1
                  /\ startTime' = currentTime - offset
                  /\ pausedAt' = 0
                  /\ raised' = "none"

\* the body of play() past its guard: stop(), create and connect the source
\* node, start it at the paused offset
PlayBody ==
    LET stopped == StopEffect
        offset == stopped.pausedAt
    IN  IF stopped.raised # "none"
        THEN /\ raised' = stopped.raised
             /\ UNCHANGED <<sourceNode, liveSources, connections, startTime,
                            pausedAt>>
        ELSE IF contextNodes < NodeCount
        THEN /\ sourceNode' = NewSource(audioBuffer, FALSE, 0)
             /\ connections' = connections \cup ChainEdges(contextNodes)
             /\ liveSources' = stopped.liveSources
             /\ startTime' = stopped.startTime
             /\ pausedAt' = stopped.pausedAt
             /\ raised' = ConnectError
        ELSE /\ sourceNode' = NewSource(audioBuffer, TRUE, offset)
             /\ connections' = connections \cup ChainEdges(contextNodes)
             /\ liveSources' = stopped.liveSources + 1
             /\ startTime' = currentTime - offset
             /\ pausedAt' = 0
             /\ raised' = "none"

\* play() guarded by the context alone
PlayNoBufferCheck ==
    /\ lastOp' = "play"
    /\ wasPlaying' = isPlaying
    /\ IF audioContext = "none"
       THEN /\ raised' = "none"
            /\ UNCHANGED <<sourceNode, liveSources, connections, startTime,
                           pausedAt>>
       ELSE PlayBody
    /\ UNCHANGED <<audioContext, currentTime, nodesCreated, contextNodes,
                   params, isInitialized, audioBuffer, pendingDecodes,
                   settings>>

\* play()
Play ==
    /\ lastOp' = "play"
    /\ wasPlaying' = isPlaying
    /\ IF audioContext = "none" \/ audioBuffer = NoBuffer
       THEN /\ raised' = "none"
            /\ UNCHANGED <<sourceNode, liveSources, connections, startTime,
                           pausedAt>>
       ELSE PlayBody
    /\ UNCHANGED <<audioContext, currentTime, nodesCreated, contextNodes,
                   params, isInitialized, audioBuffer, pendingDecodes,
                   settings>>

\* the body of pause() storing the clock instead of the elapsed time
PauseBodyNoAnchor ==
    /\ pausedAt' = currentTime
    /\ IF sourceNode.started
       THEN /\ sourceNode' = NoNode
            /\ liveSources' = liveSources - 1
            /\ raised' = "none"
       ELSE /\ raised' = "InvalidStateError"
            /\ UNCHANGED <<sourceNode, liveSources>>
    /\ UNCHANGED startTime

\* the body of pause() past its guard
PauseBody ==
    /\ pausedAt' = currentTime - startTime
    /\ IF sourceNode.started
       THEN /\ sourceNode' = NoNode
            /\ liveSources' = liveSources - 1
            /\ raised' = "none"
       ELSE /\ raised' = "InvalidStateError"
            /\ UNCHANGED <<sourceNode, liveSources>>
    /\ UNCHANGED startTime

\* pause() guarded by the context alone
PauseNoSourceCheck ==
    /\ lastOp' = "pause"
    /\ wasPlaying' = isPlaying
    /\ IF audioContext = "none"
       THEN /\ raised' = "none"
            /\ UNCHANGED <<sourceNode, liveSources, startTime, pausedAt>>
       ELSE IF sourceNode = NoNode
       THEN /\ pausedAt' = currentTime - startTime
            /\ raised' = "none"
            /\ UNCHANGED <<sourceNode, liveSources, startTime>>
       ELSE PauseBody
    /\ UNCHANGED <<audioContext, currentTime, nodesCreated, contextNodes,
                   params, isInitialized, audioBuffer, pendingDecodes,
                   connections, settings>>

\* pause()
Pause ==
    /\ lastOp' = "pause"
    /\ wasPlaying' = isPlaying
    /\ IF audioContext = "none" \/ sourceNode = NoNode
       THEN /\ raised' = "none"
            /\ UNCHANGED <<sourceNode, liveSources, startTime, pausedAt>>
       ELSE PauseBody
    /\ UNCHANGED <<audioContext, currentTime, nodesCreated, contextNodes,
                   params, isInitialized, audioBuffer, pendingDecodes,
                   connections, settings>>

\* stop()
Stop ==
    /\ lastOp' = "stop"
    /\ wasPlaying' = isPlaying
    /\ sourceNode' = StopEffect.sourceNode
    /\ liveSources' = StopEffect.liveSources
    /\ startTime' = StopEffect.startTime
    /\ pausedAt' = StopEffect.pausedAt
    /\ raised' = StopEffect.raised
    /\ UNCHANGED <<audioContext, currentTime, nodesCreated, contextNodes,
                   params, isInitialized, audioBuffer, pendingDecodes,
                   connections, settings>>

\* updateSettings(s)
UpdateSettings(s) ==
    /\ lastOp' = "updateSettings"
    /\ wasPlaying' = isPlaying
    /\ settings' = s
    /\ raised' = "none"
    /\ params' = IF isInitialized THEN UpdateParams(params, nodesCreated, s)
                 ELSE params
    /\ UNCHANGED <<audioContext, currentTime, nodesCreated, contextNodes,
                   isInitialized, audioBuffer, pendingDecodes, sourceNode,
                   liveSources, connections, startTime, pausedAt>>

\* destroy(): stop(), then close the context
Destroy ==
    /\ lastOp' = "destroy"
    /\ wasPlaying' = isPlaying
    /\ sourceNode' = StopEffect.sourceNode
    /\ liveSources' = StopEffect.liveSources
    /\ startTime' = StopEffect.startTime
    /\ pausedAt' = StopEffect.pausedAt
    /\ raised' = StopEffect.raised
    /\ audioContext' = IF StopEffect.raised = "none" /\ audioContext # "none"
                       THEN "closed" ELSE audioContext
    /\ UNCHANGED <<currentTime, nodesCreated, contextNodes, params,
                   isInitialized, audioBuffer, pendingDecodes, connections,
                   settings>>

\* the clock of a running context advances
Tick ==
    /\ audioContext = "running"
    /\ currentTime < MaxClock
    /\ currentTime' = currentTime + 1
    /\ lastOp' = "tick"
    /\ wasPlaying' = isPlaying
    /\ raised' = "none"
    /\ UNCHANGED <<audioContext, nodesCreated, contextNodes, params,
                   isInitialized, audioBuffer, pendingDecodes, sourceNode,
                   liveSources, connections, startTime, pausedAt, settings>>

\* the application, the meter and the waveform extractor at rest
UiIdle ==
    /\ uiPlaying = FALSE
    /\ uiFile = NoFile
    /\ isReady = FALSE
    /\ effects = <<>>
    /\ uiEvent = "none"
    /\ uiSettings = DefaultSettings
    /\ mounted = FALSE

MeterIdle ==
    /\ frame = <<>>
    /\ level = NoLevel

WaveIdle ==
    /\ waveBuffer = NoWaveBuffer
    /\ waveformData = NoWaveform
    /\ pendingWaves = [f \in Files |-> 0]

\* a step of the processor alone
OnlyProcessor == UNCHANGED <<uiVars, meterVars, waveVars>>

\* the points at which a call is let fail in initialize(), when it runs it
\* at all: in the AudioContext constructor, at the first node, at a node in
\* the middle, or nowhere
FailPoints(runs) ==
    IF runs THEN {0, GainIdx, MidIdx, NodeCount + 1} ELSE {NodeCount + 1}

Next ==
    \/ (\E failAt \in FailPoints(~isInitialized) : Initialize(failAt))
       /\ OnlyProcessor
    \/ (\E f \in Files, failAt \in FailPoints(audioContext = "none") :
           LoadAudioFile(f, failAt)) /\ OnlyProcessor
    \/ (\E f \in Files : DecodeDone(f)) /\ OnlyProcessor
    \/ (\E f \in Files : DecodeFail(f)) /\ OnlyProcessor
    \/ Play /\ OnlyProcessor
    \/ Pause /\ OnlyProcessor
    \/ Stop /\ OnlyProcessor
    \/ (\E s \in SettingsChoices : UpdateSettings(s)) /\ OnlyProcessor
    \/ Destroy /\ OnlyProcessor
    \/ Tick /\ OnlyProcessor

\* a new processor, with nothing else in motion
InitProcessor == Init /\ UiIdle /\ MeterIdle /\ WaveIdle

Spec == InitProcessor /\ [][Next]_vars

\* ---------------------------------------------- the parameter mapping alone
\* an initialized processor about to be given one settings value
InitMap ==
    /\ audioContext = "running"
    /\ currentTime = 0
    /\ nodesCreated = NodeCount
    /\ contextNodes = NodeCount
    /\ params = InitializedParams
    /\ isInitialized = TRUE
    /\ audioBuffer = NoBuffer
    /\ pendingDecodes = {}
    /\ sourceNode = NoNode
    /\ liveSources = 0
    /\ connections = {}
    /\ startTime = 0
    /\ pausedAt = 0
    /\ settings \in SettingsDomain
    /\ lastOp = "initialize"
    /\ wasPlaying = FALSE
    /\ raised = "none"

NextMap == UpdateSettings(settings) /\ OnlyProcessor

InitMapping == InitMap /\ UiIdle /\ MeterIdle /\ WaveIdle

SpecMap == InitMapping /\ [][NextMap]_vars

\* ------------------------------------------- the application around the hook
\* the effects of useAudioProcessor that depend on isReady, in the order
\* the hook declares them
ReadyEffects == <<"load", "settings", "playpause">>

\* the presets of App; "custom" stands for the current settings
presets(audioSettings) ==
    ("custom" :> audioSettings) @@
    ("deep-house" :>
        [bassBoost |-> 85, lowFreq |-> 80, midFreq |-> 45, highFreq |-> 30,
         saturation |-> 60, compression |-> 70, gain |-> 80,
         enabled |-> TRUE]) @@
    ("dubstep" :>
        [bassBoost |-> 95, lowFreq |-> 90, midFreq |-> 40, highFreq |-> 25,
         saturation |-> 85, compression |-> 85, gain |-> 85,
         enabled |-> TRUE]) @@
    ("techno" :>
        [bassBoost |-> 75, lowFreq |-> 75, midFreq |-> 55, highFreq |-> 40,
         saturation |-> 45, compression |-> 60, gain |-> 78,
         enabled |-> TRUE]) @@
    ("trap" :>
        [bassBoost |-> 90, lowFreq |-> 85, midFreq |-> 35, highFreq |-> 45,
         saturation |-> 70, compression |-> 75, gain |-> 82,
         enabled |-> TRUE]) @@
    ("minimal" :>
        [bassBoost |-> 40, lowFreq |-> 50, midFreq |-> 60, highFreq |-> 55,
         saturation |-> 20, compression |-> 30, gain |-> 70,
         enabled |-> TRUE])

PresetNames ==
    {"custom", "deep-house", "dubstep", "techno", "trap", "minimal"}

\* the sliders of App and the ends of their range (min 0, max 100)
SliderKeys ==
    {"bassBoost", "lowFreq", "midFreq", "highFreq", "saturation",
     "compression", "gain"}
SliderValues == {0, 100}

\* the settings explored through the sliders and the switch: those with at
\* most MaxChanged fields moved away from the initial settings
NearDefault(s) ==
    Cardinality({ k \in DOMAIN s : s[k] # DefaultSettings[k] }) <= MaxChanged

\* the component has rendered for the first time: the four effects of the
\* hook are due, in the order the hook declares them
InitApp ==
    /\ Init
    /\ uiPlaying = FALSE
    /\ uiFile = NoFile
    /\ isReady = FALSE
    /\ effects = <<"mount">> \o ReadyEffects
    /\ uiEvent = "mount"
    /\ uiSettings = DefaultSettings
    /\ mounted = TRUE

\* the mount effect: the body of initialize() runs inside the effect; what
\* follows its await runs after the other effects of the commit
MountEffect(failAt) ==
    /\ effects # <<>>
    /\ Head(effects) = "mount"
    /\ Initialize(failAt)
    /\ effects' = Tail(effects) \o
                  (IF failAt = NodeCount + 1 THEN <<"ready">> ELSE <<>>)
    /\ UNCHANGED <<uiPlaying, uiFile, isReady, uiEvent, meterVars, waveVars>>
    /\ UNCHANGED <<uiSettings, mounted>>

\* initializeProcessor() resumes after its await: setIsReady(true), and the
\* effects that depend on isReady run again if the component is mounted
InitializeResolved ==
    /\ effects # <<>>
    /\ Head(effects) = "ready"
    /\ isReady' = TRUE
    /\ effects' = Tail(effects) \o (IF mounted THEN ReadyEffects ELSE <<>>)
    /\ UNCHANGED <<uiPlaying, uiFile, uiEvent, uiSettings, mounted>>
    /\ UNCHANGED <<procVars, meterVars, waveVars>>

\* the component unmounts, once the effects of its commit have run: the
\* cleanup of the mount effect calls destroy()
Unmount ==
    /\ mounted
    /\ effects \in {<<>>, <<"ready">>}
    /\ Destroy
    /\ mounted' = FALSE
    /\ uiEvent' = "unmount"
    /\ UNCHANGED <<uiPlaying, uiFile, isReady, effects, uiSettings>>
    /\ UNCHANGED <<meterVars, waveVars>>

\* the effect on [audioFile, isReady]
LoadEffect ==
    /\ effects # <<>>
    /\ Head(effects) = "load"
    /\ IF uiFile # NoFile /\ isReady
       THEN LoadAudioFile(uiFile, NodeCount + 1)
       ELSE UNCHANGED procVars
    /\ effects' = Tail(effects)
    /\ UNCHANGED <<uiPlaying, uiFile, isReady, uiEvent, meterVars, waveVars>>
    /\ UNCHANGED <<uiSettings, mounted>>

\* the effect on [settings, isReady]
SettingsEffect ==
    /\ effects # <<>>
    /\ Head(effects) = "settings"
    /\ IF isReady
       THEN UpdateSettings(uiSettings)
       ELSE UNCHANGED procVars
    /\ effects' = Tail(effects)
    /\ UNCHANGED <<uiPlaying, uiFile, isReady, uiEvent, meterVars, waveVars>>
    /\ UNCHANGED <<uiSettings, mounted>>

\* the effect on [isPlaying, isReady]
PlayPauseEffect ==
    /\ effects # <<>>
    /\ Head(effects) = "playpause"
    /\ IF ~isReady THEN UNCHANGED procVars
       ELSE IF uiPlaying THEN Play ELSE Pause
    /\ effects' = Tail(effects)
    /\ UNCHANGED <<uiPlaying, uiFile, isReady, uiEvent, meterVars, waveVars>>
    /\ UNCHANGED <<uiSettings, mounted>>

\* handleFileUpload(file) with a valid file
HandleFileUpload(f) ==
    /\ mounted
    /\ effects = <<>>
    /\ f # uiFile
    /\ f \notin pendingDecodes
    /\ uiFile' = f
    /\ uiPlaying' = FALSE
    /\ effects' = (IF isReady THEN <<"load">> ELSE <<>>) \o
                  (IF isReady /\ uiPlaying THEN <<"playpause">> ELSE <<>>)
    /\ uiEvent' = "upload"
    /\ UNCHANGED <<isReady, procVars, meterVars, waveVars>>
    /\ UNCHANGED <<uiSettings, mounted>>

\* the recording effect of App saving a recording: setAudioFile(file)
RecordingSaved(f) ==
    /\ mounted
    /\ effects = <<>>
    /\ f # uiFile
    /\ f \notin pendingDecodes
    /\ uiFile' = f
    /\ effects' = IF isReady THEN <<"load">> ELSE <<>>
    /\ uiEvent' = "recorded"
    /\ UNCHANGED <<uiPlaying, isReady, procVars, meterVars, waveVars>>
    /\ UNCHANGED <<uiSettings, mounted>>

\* handleSettingChange(key, value) from a slider or the enabled switch
HandleSettingChange(key, value) ==
    /\ mounted
    /\ effects = <<>>
    /\ NearDefault([uiSettings EXCEPT ![key] = value])
    /\ uiSettings' = [uiSettings EXCEPT ![key] = value]
    /\ effects' = <<"settings">>
    /\ uiEvent' = "settingChange"
    /\ UNCHANGED <<uiPlaying, uiFile, isReady, mounted>>
    /\ UNCHANGED <<procVars, meterVars, waveVars>>

\* handlePresetChange(value): every preset but "custom" replaces the
\* settings, and the settings effect runs again
HandlePresetChange(value) ==
    /\ mounted
    /\ effects = <<>>
    /\ uiSettings' = IF value # "custom"
                     THEN presets(uiSettings)[value]
                     ELSE uiSettings
    /\ effects' = IF value # "custom" THEN <<"settings">> ELSE <<>>
    /\ uiEvent' = "presetChange"
    /\ UNCHANGED <<uiPlaying, uiFile, isReady, mounted>>
    /\ UNCHANGED <<procVars, meterVars, waveVars>>

\* handlePlayPause()
HandlePlayPause ==
    /\ mounted
    /\ effects = <<>>
    /\ uiFile # NoFile
    /\ isReady
    /\ uiPlaying' = ~uiPlaying
    /\ effects' = <<"playpause">>
    /\ uiEvent' = "playPause"
    /\ UNCHANGED <<uiFile, isReady, procVars, meterVars, waveVars>>
    /\ UNCHANGED <<uiSettings, mounted>>

\* handleStop() from the stop button
HandleStop ==
    /\ mounted
    /\ effects = <<>>
    /\ uiFile # NoFile
    /\ isReady
    /\ uiPlaying' = FALSE
    /\ effects' = IF uiPlaying THEN <<"playpause">> ELSE <<>>
    /\ uiEvent' = "stop"
    /\ UNCHANGED <<uiFile, isReady, procVars, meterVars, waveVars>>
    /\ UNCHANGED <<uiSettings, mounted>>

\* the polling interval of AudioControls seeing the end of the buffer:
\* onStop()
PollAutoStop ==
    /\ mounted
    /\ effects = <<>>
    /\ uiPlaying
    /\ getCurrentTime >= getDuration
    /\ getDuration > 0
    /\ uiPlaying' = FALSE
    /\ effects' = IF isReady THEN <<"playpause">> ELSE <<>>
    /\ uiEvent' = "poll"
    /\ UNCHANGED <<uiFile, isReady, procVars, meterVars, waveVars>>
    /\ UNCHANGED <<uiSettings, mounted>>

NextApp ==
    \/ \E failAt \in 0..(NodeCount + 1) : MountEffect(failAt)
    \/ InitializeResolved
    \/ Unmount
    \/ LoadEffect
    \/ SettingsEffect
    \/ PlayPauseEffect
    \/ \E f \in Files : HandleFileUpload(f)
    \/ \E f \in Files : RecordingSaved(f)
    \/ \E key \in SliderKeys, value \in SliderValues :
          HandleSettingChange(key, value)
    \/ \E value \in BOOLEAN : HandleSettingChange("enabled", value)
    \/ \E value \in PresetNames : HandlePresetChange(value)
    \/ HandlePlayPause
    \/ HandleStop
    \/ PollAutoStop
    \/ effects = <<>> /\ (\E f \in Files : DecodeDone(f)) /\ OnlyProcessor
    \/ effects = <<>> /\ (\E f \in Files : DecodeFail(f)) /\ OnlyProcessor
    \/ effects = <<>> /\ Tick /\ OnlyProcessor

InitApplication == InitApp /\ MeterIdle /\ WaveIdle

SpecApp == InitApplication /\ [][NextApp]_vars

\* ------------------------------------------------------------ the level meter
\* the byte magnitudes the analyser may hand out, and its frames
BinValues == {0, 1, 127, 128, 254, 255}
Frames == [1..NumBins -> BinValues]

\* the loop of getLevel(): the sum of dataArray[i] for i below n
RECURSIVE SumBins(_, _)
SumBins(dataArray, n) ==
    IF n = 0 THEN 0 ELSE SumBins(dataArray, n - 1) + dataArray[n]

\* getLevel() returning the sum over 255 scaled by 100, the mean left out
LevelOfNoMean(hasAnalyser, dataArray) ==
    IF ~hasAnalyser THEN [num |-> 0, den |-> 1]
    ELSE [num |-> SumBins(dataArray, Len(dataArray)) * 100, den |-> 255]

\* the value of getLevel() on the frame dataArray, (sum/length)/255*100 as
\* the fraction num/den
LevelOf(hasAnalyser, dataArray) ==
    IF ~hasAnalyser THEN [num |-> 0, den |-> 1]
    ELSE [num |-> SumBins(dataArray, Len(dataArray)) * 100,
          den |-> Len(dataArray) * 255]

\* getLevel(): the analyser fills a fresh frame and the level is computed
GetLevel(dataArray) ==
    /\ frame' = dataArray
    /\ level' = LevelOf(nodesCreated >= AnalyserIdx, dataArray)
    /\ lastOp' = "getLevel"
    /\ wasPlaying' = isPlaying
    /\ raised' = "none"
    /\ UNCHANGED <<audioContext, currentTime, nodesCreated, contextNodes,
                   params, isInitialized, audioBuffer, pendingDecodes,
                   sourceNode, liveSources, connections, startTime, pausedAt,
                   settings>>
    /\ UNCHANGED <<uiVars, waveVars>>

\* an initialized processor whose meter has not been pulled yet
InitLevel ==
    /\ InitMap
    /\ settings = DefaultSettings

NextLevel == \E dataArray \in Frames : GetLevel(dataArray)

InitMeter == InitLevel /\ UiIdle /\ MeterIdle /\ WaveIdle

SpecLevel == InitMeter /\ [][NextLevel]_vars

\* ------------------------------------------------------ the waveform extractor
\* samples: the number of entries of the waveform
WaveSamples == 800

\* first-channel contents of the decoded buffers, in thousandths:
\* "half" is the constant 0.5, "ramp" runs over -1..1, "tail" is 0.5 with
\* ones in the frames past the last whole block
WaveShapes == {"half", "ramp", "tail"}

WaveLengths ==
    { n \in { k * WaveSamples + d : k \in 0..MaxBlock,
                                    d \in (0 - LenSpread)..LenSpread } : n >= 1 }
    \cup {8000}

WaveBuffers == [length : WaveLengths, shape : WaveShapes]

\* audioBuffer.getChannelData(0)[sampleIndex]
ChannelData(buffer, sampleIndex) ==
    CASE buffer.shape = "half" -> 500
      [] buffer.shape = "ramp" -> ((sampleIndex * 37) % 2001) - 1000
      [] OTHER -> IF sampleIndex <
                       WaveSamples * (buffer.length \div WaveSamples)
                  THEN 500 ELSE 1000

\* Math.abs
Abs(x) == IF x < 0 THEN 0 - x ELSE x

\* the inner loop of generateWaveform for block i: the sum of |sample| over
\* j below n
RECURSIVE BlockSum(_, _, _, _)
BlockSum(buffer, i, blockSize, n) ==
    IF n = 0 THEN 0
    ELSE LET j == n - 1
             sampleIndex == i * blockSize + j
         IN  BlockSum(buffer, i, blockSize, j) +
             (IF sampleIndex < buffer.length
              THEN Abs(ChannelData(buffer, sampleIndex)) ELSE 0)

\* generateWaveform with the block size rounded up
WaveformOfCeil(buffer) ==
    LET blockSize == (buffer.length + WaveSamples - 1) \div WaveSamples
    IN  [k \in 1..WaveSamples |->
           [num |-> BlockSum(buffer, k - 1, blockSize, blockSize),
            den |-> blockSize]]

\* generateWaveform giving a short buffer one entry per frame
WaveformOfShort(buffer) ==
    LET blockSize == buffer.length \div WaveSamples
        entries == IF blockSize = 0 THEN buffer.length ELSE WaveSamples
    IN  [k \in 1..entries |->
           [num |-> BlockSum(buffer, k - 1, blockSize, blockSize),
            den |-> blockSize]]

\* the waveData generateWaveform computes: entry i is sum / blockSize, kept
\* as the fraction num/den (0/0 is the NaN of a zero block size)
WaveformOf(buffer) ==
    LET blockSize == buffer.length \div WaveSamples
    IN  [k \in 1..WaveSamples |->
           [num |-> BlockSum(buffer, k - 1, blockSize, blockSize),
            den |-> blockSize]]

\* generateWaveform() once the decode has resolved
GenerateWaveform ==
    /\ waveBuffer # NoWaveBuffer
    /\ waveformData' = WaveformOf(waveBuffer)
    /\ lastOp' = "generateWaveform"
    /\ UNCHANGED <<waveBuffer, pendingWaves>>
    /\ UNCHANGED <<audioContext, currentTime, nodesCreated, contextNodes,
                   params, isInitialized, audioBuffer, pendingDecodes,
                   sourceNode, liveSources, connections, startTime, pausedAt,
                   settings, wasPlaying, raised>>
    /\ UNCHANGED <<uiVars, meterVars>>

\* a file has been decoded for the visualizer
InitWave ==
    /\ Init
    /\ waveBuffer \in WaveBuffers
    /\ waveformData = NoWaveform
    /\ pendingWaves = [f \in Files |-> 0]

NextWave == GenerateWaveform

InitExtractor == InitWave /\ UiIdle /\ MeterIdle

SpecWave == InitExtractor /\ [][NextWave]_vars

\* ------------------------------------- the waveform effect of the visualizer
\* the buffer decodeAudioData yields for file f in the visualizer
WaveOfFile(f) ==
    [length |-> WaveSamples * f,
     shape |-> IF f % 2 = 1 THEN "half" ELSE "ramp"]

\* the audioFile prop changes to f: the effect calls generateWaveform(),
\* which awaits arrayBuffer() and decodeAudioData
SelectFile(f) ==
    /\ f # uiFile
    /\ pendingWaves[f] < MaxPending
    /\ uiFile' = f
    /\ pendingWaves' = [pendingWaves EXCEPT ![f] = @ + 1]
    /\ uiEvent' = "selectFile"
    /\ UNCHANGED <<waveBuffer, waveformData>>
    /\ UNCHANGED <<uiPlaying, isReady, effects, procVars, meterVars>>
    /\ UNCHANGED <<uiSettings, mounted>>

\* a pending generateWaveform() for file f resumes after its decode,
\* computes the waveform and calls setWaveformData
WaveformDone(f) ==
    /\ pendingWaves[f] > 0
    /\ pendingWaves' = [pendingWaves EXCEPT ![f] = @ - 1]
    /\ waveBuffer' = WaveOfFile(f)
    /\ waveformData' = WaveformOf(WaveOfFile(f))
    /\ uiEvent' = "waveformDone"
    /\ UNCHANGED <<uiPlaying, uiFile, isReady, effects, procVars, meterVars>>
    /\ UNCHANGED <<uiSettings, mounted>>

\* a pending generateWaveform() for file f fails in arrayBuffer() or
\* decodeAudioData: the catch logs and sets nothing
WaveformFail(f) ==
    /\ pendingWaves[f] > 0
    /\ pendingWaves' = [pendingWaves EXCEPT ![f] = @ - 1]
    /\ uiEvent' = "waveformFail"
    /\ UNCHANGED <<waveBuffer, waveformData>>
    /\ UNCHANGED <<uiPlaying, uiFile, isReady, effects, procVars, meterVars>>
    /\ UNCHANGED <<uiSettings, mounted>>

NextVis ==
    \/ \E f \in Files : SelectFile(f)
    \/ \E f \in Files : WaveformDone(f)
    \/ \E f \in Files : WaveformFail(f)

\* the visualizer mounted with no file selected
InitVisualizer == Init /\ UiIdle /\ MeterIdle /\ WaveIdle

SpecVis == InitVisualizer /\ [][NextVis]_vars

\* ------------------------------------------------------------------- claims
\* C1: stop() leaves getCurrentTime() = 0 and isPlaying() = false.
C1_StopResetsPosition ==
    lastOp = "stop" => (getCurrentTime = 0 /\ ~isPlaying)

\* C2: after pause() stored an offset p > 0, the next play() starts the new
\* source node at p and sets the anchor to now - p.
C2_PlayResumesAtPausedOffset ==
    [][(/\ lastOp' = "play"
        /\ isInitialized
        /\ audioBuffer # NoBuffer
        /\ ~isPlaying
        /\ pausedAt > 0)
       => (/\ sourceNode' # NoNode
           /\ sourceNode'.offset = pausedAt
           /\ startTime' = currentTime - pausedAt)]_vars

\* C3: while no playback unit exists (Paused or Stopped) getCurrentTime()
\* returns the stored pausedAt, whatever the clock shows.
C3_PositionFrozenWhenNotPlaying ==
    ~isPlaying => getCurrentTime = pausedAt

\* C4: at most one source node is started and not stopped, and it is the
\* one the processor holds.
C4_AtMostOneSource ==
    /\ liveSources <= 1
    /\ liveSources = 1 => (isPlaying /\ sourceNode.started)

C4_Witness ==
    /\ lastOp = "play"
    /\ wasPlaying
    /\ raised = "none"
    /\ liveSources = 1

\* C5: play() with no buffer loaded throws nothing, creates no source node
\* and leaves startTime, pausedAt and isPlaying() as they were.
C5_PlayWithoutBufferIsNoOp ==
    [][(lastOp' = "play" /\ audioBuffer = NoBuffer)
       => (/\ raised' = "none"
           /\ UNCHANGED <<sourceNode, liveSources, startTime, pausedAt>>)]_vars

C5_Witness ==
    /\ lastOp = "play"
    /\ audioContext = "running"
    /\ audioBuffer = NoBuffer
    /\ pendingDecodes # {}

\* C6: pause() while a started source node exists stores
\* pausedAt = now - startTime, stops and drops the node, so that isPlaying()
\* is false.
C6_PauseStoresElapsed ==
    [][(lastOp' = "pause" /\ isPlaying /\ sourceNode.started)
       => (/\ pausedAt' = currentTime - startTime
           /\ sourceNode' = NoNode
           /\ liveSources' = liveSources - 1
           /\ raised' = "none")]_vars

C6_Witness ==
    /\ lastOp = "pause"
    /\ wasPlaying
    /\ ~isPlaying
    /\ startTime > 0
    /\ pausedAt > 0

\* a settings field clamped to [0,100]
Clamp(v) == IF v < 0 THEN 0 ELSE IF v > 100 THEN 100 ELSE v

ClampSettings(s) ==
    [bassBoost |-> Clamp(s.bassBoost), lowFreq |-> Clamp(s.lowFreq),
     midFreq |-> Clamp(s.midFreq), highFreq |-> Clamp(s.highFreq),
     saturation |-> Clamp(s.saturation), compression |-> Clamp(s.compression),
     gain |-> Clamp(s.gain), enabled |-> s.enabled]

\* C7: updateSettings yields, for any settings value, the stage parameters
\* of that value clamped to [0,100].
C7_SettingsClamped ==
    (isInitialized /\ lastOp = "updateSettings")
    => params = UpdateParams(params, nodesCreated, ClampSettings(settings))

InRange(s) ==
    /\ s.bassBoost \in 0..100
    /\ s.lowFreq \in 0..100
    /\ s.midFreq \in 0..100
    /\ s.highFreq \in 0..100
    /\ s.compression \in 0..100
    /\ s.gain \in 0..100

\* C8: for settings in 0..100 updateSettings sets shelf gain
\* (bassBoost-50)*0.5, peak gains (x-50)*0.48, ratio 1+(compression/100)*19
\* and output gain gain/100 (in hundredths), -25/+25 dB at bassBoost 0/100
\* and ratio 1/20 at compression 0/100.
C8_Mappings ==
    (lastOp = "updateSettings" /\ InRange(settings))
    => /\ 2 * params.bass = (settings.bassBoost - 50) * 100
       /\ 100 * params.low = (settings.lowFreq - 50) * 4800
       /\ 100 * params.mid = (settings.midFreq - 50) * 4800
       /\ 100 * params.high = (settings.highFreq - 50) * 4800
       /\ params.ratio - 100 = settings.compression * 19
       /\ params.gain = settings.gain
       /\ settings.bassBoost = 0 => params.bass = -2500
       /\ settings.bassBoost = 100 => params.bass = 2500
       /\ settings.compression = 0 => params.ratio = 100
       /\ settings.compression = 100 => params.ratio = 2000

C8_Witness ==
    /\ lastOp = "updateSettings"
    /\ settings.bassBoost = 100
    /\ settings.compression = 100
    /\ params.bass = 2500
    /\ params.ratio = 2000

\* C9: on an initialized processor the parameters after updateSettings(s)
\* are those a freshly initialized processor gets from updateSettings(s),
\* and applying updateSettings(s) once more changes none of them.
C9_HistoryIndependent ==
    (isInitialized /\ lastOp = "updateSettings")
    => /\ params = UpdateParams(InitializedParams, NodeCount, settings)
       /\ UpdateParams(params, nodesCreated, settings) = params

C9_Witness ==
    /\ lastOp = "updateSettings"
    /\ isInitialized
    /\ isPlaying
    /\ currentTime > startTime
    /\ settings # DefaultSettings
    /\ params.gain = 100

\* C10: after a failed initialize() every other operation changes no state
\* and throws nothing until an initialize() succeeds.
C10_NotReadyOpsAreNoOps ==
    [][(/\ ~isInitialized
        /\ \/ audioContext # "none"
           \/ (lastOp = "initialize" /\ raised = "InitError")
        /\ lastOp' \in {"loadAudioFile", "decodeDone", "decodeFail",
                        "updateSettings", "play", "pause", "stop"})
       => (/\ raised' = "none"
           /\ UNCHANGED <<audioContext, nodesCreated, params, isInitialized,
                          audioBuffer, sourceNode, liveSources, startTime,
                          pausedAt>>)]_vars

\* C11: destroy() halts the active source node, and after destroy() no
\* operation creates a source node or changes a stage parameter.
C11_DestroyedOpsTouchNothing ==
    [][/\ lastOp' = "destroy" => liveSources' = 0
       /\ (/\ audioContext = "closed"
           /\ lastOp' \in {"play", "pause", "stop", "loadAudioFile",
                           "decodeDone", "decodeFail", "updateSettings",
                           "initialize", "destroy"})
          => UNCHANGED <<sourceNode, liveSources, params>>]_vars

\* C12: a failed decode is reported and leaves the loaded buffer, and so
\* getDuration(), as it was.
C12_FailedDecodeKeepsBuffer ==
    [][lastOp' = "decodeFail"
       => (/\ raised' = "LoadError"
           /\ audioBuffer' = audioBuffer
           /\ getDuration' = getDuration)]_vars

C12_Witness ==
    /\ lastOp = "decodeFail"
    /\ raised = "LoadError"
    /\ audioBuffer # NoBuffer
    /\ getDuration > 0

\* C19: getDuration() is frameCount/sampleRate of the loaded buffer and 0
\* when none is loaded, whatever the transport state.
C19_DurationOfLoadedBuffer ==
    /\ audioBuffer = NoBuffer => getDuration = 0
    /\ audioBuffer # NoBuffer
       => getDuration * SampleRate = FrameCount(audioBuffer)

C19_Witness ==
    /\ audioBuffer # NoBuffer
    /\ ~isPlaying
    /\ lastOp = "pause"
    /\ pausedAt > 0
    /\ getDuration = Duration(audioBuffer)

\* C20: initialize() on an initialized processor creates no context or
\* stage and leaves the parameters, the buffer and the transport unchanged.
C20_InitializeIdempotent ==
    [][(lastOp' = "initialize" /\ isInitialized)
       => (/\ raised' = "none"
           /\ UNCHANGED <<audioContext, currentTime, nodesCreated, params,
                          isInitialized, audioBuffer, pendingDecodes,
                          sourceNode, liveSources, startTime, pausedAt>>)]_vars

C20_Witness ==
    /\ lastOp = "initialize"
    /\ isInitialized
    /\ isPlaying
    /\ currentTime > 0
    /\ params # InitializedParams

\* C15: getLevel() is mean(bins)/255*100 of the frame, lies in [0,100], is
\* 0 for an all-zero frame and 100 for an all-255 frame.
C15_LevelInRange ==
    lastOp = "getLevel"
    => /\ level.den > 0
       /\ level.num * 255 * Len(frame)
            = SumBins(frame, Len(frame)) * 100 * level.den
       /\ 0 <= level.num
       /\ level.num <= 100 * level.den
       /\ (\A b \in 1..Len(frame) : frame[b] = 0) => level.num = 0
       /\ (\A b \in 1..Len(frame) : frame[b] = 255)
          => level.num = 100 * level.den

C15_Witness ==
    /\ lastOp = "getLevel"
    /\ \A b \in 1..Len(frame) : frame[b] = 255
    /\ level.num = 100 * level.den

\* C16: the waveform has exactly 800 entries for every buffer length.
C16_WaveformLength ==
    lastOp = "generateWaveform" => Len(waveformData) = 800

C16_Witness ==
    /\ lastOp = "generateWaveform"
    /\ waveBuffer.length > 0
    /\ waveBuffer.length < 800
    /\ Len(waveformData) = 800

\* C17: every entry of the waveform is a defined finite number, also for a
\* buffer of fewer than 800 frames: nothing is divided by zero.
C17_NoDivisionByZero ==
    lastOp = "generateWaveform"
    => \A k \in 1..Len(waveformData) : waveformData[k].den # 0

\* the sum of |sample| over the frames from..to of the first channel
RECURSIVE AbsSum(_, _, _)
AbsSum(buffer, from, to) ==
    IF to < from THEN 0
    ELSE AbsSum(buffer, from, to - 1) + Abs(ChannelData(buffer, to))

\* C18: for a length of at least 800, entry i is the mean of |sample| over
\* frames i*blockSize .. (i+1)*blockSize-1 with blockSize = floor(L/800);
\* frames from 800*blockSize on count nowhere (constant 0.5 gives 0.5).
C18_BlockMeans ==
    (lastOp = "generateWaveform" /\ waveBuffer.length >= 800)
    => LET blockSize == waveBuffer.length \div 800
       IN  \A i \in 0..799 :
             /\ waveformData[i + 1].den = blockSize
             /\ waveformData[i + 1].num =
                  AbsSum(waveBuffer, i * blockSize, (i + 1) * blockSize - 1)
             /\ waveBuffer.shape \in {"half", "tail"}
                => waveformData[i + 1].num = 500 * waveformData[i + 1].den

C18_Witness ==
    /\ lastOp = "generateWaveform"
    /\ waveBuffer = [length |-> 8000, shape |-> "half"]
    /\ \A k \in 1..800 : waveformData[k] = [num |-> 5000, den |-> 10]

\* C13: once a load has replaced the buffer, no source node bound to the
\* old buffer is still running.
C13_ReplacedBufferStopsPlayback ==
    (isPlaying /\ sourceNode.started) => sourceNode.buffer = audioBuffer

\* C14: after the poller has seen getCurrentTime() >= getDuration() > 0 and
\* its stop request has run, the source node is discarded and startTime and
\* pausedAt are both 0.
C14_AutoStopResets ==
    (uiEvent = "poll" /\ effects = <<>>)
    => (sourceNode = NoNode /\ startTime = 0 /\ pausedAt = 0)

\* C21: settings that differ only in saturation and enabled give the same
\* stage parameters: after updateSettings(s) the parameters are those of
\* updateSettings on s with any other saturation and enabled, fixed stage
\* parameters included.
C21_SaturationEnabledUnwired ==
    lastOp = "updateSettings"
    => \A sat \in {0, 30, 100}, en \in BOOLEAN :
         params = UpdateParams(InitializedParams, NodeCount,
                               [settings EXCEPT !.saturation = sat,
                                                !.enabled = en])

C21_Witness ==
    /\ lastOp = "updateSettings"
    /\ ~settings.enabled
    /\ settings.saturation = 100
    /\ params.bass = 2500
    /\ params.gain = 100

\* C22: updateSettings leaves the filter types and frequencies and the
\* compressor threshold, knee, attack and release as initialize() set them
\* (-24 dB, 30 dB, 3 ms, 250 ms), and leaves the loaded buffer, the source
\* node, the connections, startTime and pausedAt unchanged.
C22_UpdateSettingsFrame ==
    [][lastOp' = "updateSettings"
       => (/\ params'.config = params.config
           /\ isInitialized => (/\ params'.config = InitializedConfig
                                /\ params'.config.threshold = -2400
                                /\ params'.config.knee = 3000
                                /\ params'.config.attack = 3
                                /\ params'.config.release = 250)
           /\ UNCHANGED <<audioBuffer, pendingDecodes, sourceNode, liveSources,
                          connections, startTime, pausedAt, audioContext,
                          isInitialized>>)]_vars

C22_Witness ==
    /\ lastOp = "updateSettings"
    /\ isPlaying
    /\ sourceNode.started
    /\ startTime > 0
    /\ params.ratio = 2000
    /\ params.config = InitializedConfig

\* the nodes that node n is connected to
Successors(n) == { e[2] : e \in { x \in connections : x[1] = n } }

\* the nodes a signal entering node n passes, n first, following
\* connections for at most fuel steps
RECURSIVE Route(_, _)
Route(n, fuel) ==
    IF fuel = 0 \/ Successors(n) = {}
    THEN <<n>>
    ELSE <<n>> \o Route(CHOOSE m \in Successors(n) : TRUE, fuel - 1)

\* C23: a started source node is routed through bass shelf, low peak, mid
\* peak, high peak, compressor, output gain, analyser and the destination in
\* this order, and no stage node is connected to more than one node.
C23_FixedRoute ==
    (isPlaying /\ sourceNode.started)
    => /\ Route(sourceNode.output, NodeCount + 2) =
            <<BassIdx, LowIdx, MidIdx, HighIdx, CompressorIdx, GainIdx,
              AnalyserIdx, DestinationIdx>>
       /\ \A n \in 1..NodeCount : Cardinality(Successors(n)) = 1
       /\ Successors(DestinationIdx) = {}

C23_Witness ==
    /\ lastOp = "play"
    /\ raised = "none"
    /\ isPlaying
    /\ sourceNode.started
    /\ ~wasPlaying
    /\ startTime > 0
    /\ Cardinality(connections) = NodeCount

\* C24: pause() on a source node that play() started e ticks earlier stores
\* a pausedAt with 0 <= pausedAt <= e.
C24_PausedOffsetBounded ==
    [][(/\ lastOp' = "pause"
        /\ audioBuffer # NoBuffer
        /\ isPlaying
        /\ sourceNode.started)
       => (/\ 0 <= pausedAt'
           /\ pausedAt' <= currentTime - sourceNode.startedAt)]_vars

C24_Witness ==
    /\ lastOp = "pause"
    /\ wasPlaying
    /\ raised = "none"
    /\ ~isPlaying
    /\ pausedAt = 1
    /\ currentTime = 3

\* C28: in every reachable state, a source node held by the processor
\* implies pausedAt = 0: pausedAt is non-zero only when no node is held.
C28_UnitImpliesNoOffset ==
    isPlaying => pausedAt = 0

\* C29: pause() with no source node throws nothing and leaves startTime,
\* pausedAt, the loaded buffer and isPlaying() as they were.
C29_PauseWithoutSourceIsNoOp ==
    [][(lastOp' = "pause" /\ ~isPlaying)
       => (/\ raised' = "none"
           /\ isPlaying' = isPlaying
           /\ UNCHANGED <<startTime, pausedAt, audioBuffer, sourceNode,
                          liveSources>>)]_vars

C29_Witness ==
    /\ lastOp = "pause"
    /\ ~wasPlaying
    /\ ~isPlaying
    /\ audioBuffer # NoBuffer
    /\ pausedAt > 0
    /\ currentTime - startTime > pausedAt

\* C30: play() while a started source node is running, with a buffer loaded,
\* leaves exactly one started source node, started at offset 0 on the loaded
\* buffer, with startTime = now, pausedAt = 0 and getCurrentTime() = 0.
C30_ReplayRestarts ==
    (/\ lastOp = "play"
     /\ wasPlaying
     /\ raised = "none"
     /\ audioBuffer # NoBuffer)
    => (/\ isPlaying
        /\ sourceNode.started
        /\ sourceNode.offset = 0
        /\ sourceNode.buffer = audioBuffer
        /\ sourceNode.startedAt = currentTime
        /\ startTime = currentTime
        /\ pausedAt = 0
        /\ getCurrentTime = 0
        /\ liveSources = 1)

C30_Witness ==
    /\ lastOp = "play"
    /\ wasPlaying
    /\ raised = "none"
    /\ audioBuffer # NoBuffer
    /\ currentTime = 2
    /\ startTime = 2
    /\ liveSources = 1

\* C25: once the selected file is decoded and loaded and nothing is pending,
\* a true play flag on a ready processor means a started source node exists:
\* a play request made while the decode was pending is not lost.
C25_PlayRequestNotLost ==
    (/\ mounted
     /\ uiPlaying
     /\ isReady
     /\ uiFile # NoFile
     /\ audioBuffer = uiFile
     /\ pendingDecodes = {}
     /\ effects = <<>>)
    => (isPlaying /\ sourceNode.started)

\* C26: when the decode of the most recently requested file has just
\* resolved and the decode of an earlier request resolves after it, the
\* loaded buffer is still the most recently requested file.
C26_LatestRequestWins ==
    [][(/\ isReady
        /\ uiFile # NoFile
        /\ lastOp = "decodeDone"
        /\ audioBuffer = uiFile
        /\ lastOp' = "decodeDone"
        /\ pendingDecodes' = {})
       => audioBuffer' = uiFile]_vars

\* C27: once no generateWaveform() is pending, the stored waveform is the
\* one of the selected file, or none if its decode failed, and never the
\* one of a file selected earlier.
C27_WaveformOfSelectedFile ==
    (uiFile # NoFile /\ \A f \in Files : pendingWaves[f] = 0)
    => \/ /\ waveBuffer = WaveOfFile(uiFile)
          /\ waveformData = WaveformOf(WaveOfFile(uiFile))
       \/ /\ waveBuffer = NoWaveBuffer
          /\ waveformData = NoWaveform

====
